---- MODULE Spec2Model ----
(***************************************************************************)
(* make-gallery-pages.py: the traversal of the gallery tree, the building  *)
(* of one example record per conf.yaml, the relocation of its thumbnail,   *)
(* the aggregation into sub-galleries and the rendering of the sub-gallery *)
(* pages and of the homepage.                                              *)
(*                                                                         *)
(* Text is a sequence of character codes; a path is a sequence of path     *)
(* components (each a text); a Python dict is a function whose domain is   *)
(* its set of keys.                                                        *)
(***************************************************************************)
EXTENDS Integers, Sequences, FiniteSets, TLC

(* ---------------------------------------------------------------- bounds *)

\* number of example directories (directories holding a conf.yaml) in the tree
MaxExamples == 3

(* ------------------------------------------------------------ plain data *)

\* Python's None: a value no text equals (no character has code -1)
None == << -1 >>

EmptyDict == [k \in {} |-> None]

\* dict.update / {**a, **b}: the keys of b win
Update(a, b) == [k \in (DOMAIN a) \cup (DOMAIN b) |-> IF k \in DOMAIN b THEN b[k] ELSE a[k]]

\* d[k] = v on a dict
Put(d, k, v) == [x \in (DOMAIN d) \cup {k} |-> IF x = k THEN v ELSE d[x]]

\* os.path.dirname / os.path.basename / os.path.join on component sequences
dirname(p) == SubSeq(p, 1, Len(p) - 1)

basename(p) == p[Len(p)]

join(p, name) == Append(p, name)

(* ---------------------------------------------------------------- base64 *)

\* the character of the base64 alphabet with index i (A-Z a-z 0-9 + /)
B64Char(i) ==
    IF i < 26 THEN 65 + i
    ELSE IF i < 52 THEN 97 + (i - 26)
    ELSE IF i < 62 THEN 48 + (i - 52)
    ELSE IF i = 62 THEN 43 ELSE 47

RECURSIVE b64encode(_)
\* base64.b64encode(s.encode()).decode(): 3 bytes to 4 characters, '=' padded
b64encode(s) ==
    IF Len(s) = 0 THEN << >>
    ELSE IF Len(s) = 1 THEN
        << B64Char(s[1] \div 4), B64Char((s[1] % 4) * 16), 61, 61 >>
    ELSE IF Len(s) = 2 THEN
        << B64Char(s[1] \div 4), B64Char((s[1] % 4) * 16 + (s[2] \div 16)),
           B64Char((s[2] % 16) * 4), 61 >>
    ELSE
        << B64Char(s[1] \div 4), B64Char((s[1] % 4) * 16 + (s[2] \div 16)),
           B64Char((s[2] % 16) * 4 + (s[3] \div 64)), B64Char(s[3] % 64) >>
        \o b64encode(SubSeq(s, 4, Len(s)))

RECURSIVE replace(_, _, _)
\* str.replace(old, new) for a one-character old
replace(s, old, new) ==
    IF Len(s) = 0 THEN << >>
    ELSE (IF Head(s) = old THEN new ELSE << Head(s) >>) \o replace(Tail(s), old, new)

\* text.encode("ascii", "ignore").decode(): the non-ASCII characters are dropped
AsciiIgnore(s) == SelectSeq(s, LAMBDA c : c < 128)

(* --------------------------------------------------------------- literals *)

T_Demo == << 68, 101, 109, 111 >>
T_Hi == << 72, 105 >>
T_Desc == << 76, 49, 13, 10, 76, 50 >>
T_Abstract == << 97, 233, 10, 98 >>
T_Remote == << 82, 101, 115 >>
T_Label == << 108, 98, 108 >>
T_Guid == << 97, 98, 99, 49 >>
T_Thumb == << 116, 46, 112, 110, 103 >>
T_Kw == << 107, 119 >>
T_Br == << 60, 98, 114, 62 >>
T_MissingThumbnail ==
    << 109, 105, 115, 115, 105, 110, 103, 45, 116, 104, 117, 109, 98, 110, 97, 105, 108,
       46, 112, 110, 103 >>
T_ThumbPrefix == << 116, 104, 117, 109, 98, 110, 97, 105, 108, 45 >>
T_Gallery == << 32, 71, 97, 108, 108, 101, 114, 121 >>
T_CacheName == << 46, 99, 97, 99, 104, 101, 46, 121, 97, 109, 108 >>
T_IndexRst == << 105, 110, 100, 101, 120, 46, 114, 115, 116 >>

\* source_dir, gallery_dir, static_dir
source_dir == << << 46 >>, << 115, 111, 117, 114, 99, 101 >> >>
gallery_dir == join(source_dir, << 103, 97, 108, 108, 101, 114, 121 >>)
static_dir == join(source_dir, << 95, 115, 116, 97, 116, 105, 99 >>)

(* ------------------------------------------------------ Metadata Fetcher *)

\* Python's None where a dict is expected
NoneD == [NoneType |-> None]

T_HsUrl ==
    << 104, 116, 116, 112, 115, 58, 47, 47, 104, 121, 100, 114, 111, 115, 104, 97, 114,
       101, 46, 111, 114, 103 >>

\* one creator's dict d: the attributes present, and the profile url
Author(terms) ==
    Update([k \in (DOMAIN terms) \cap {"name", "organization", "email"} |-> terms[k]],
           IF "description" \in DOMAIN terms
           THEN [url |-> T_HsUrl \o terms["description"]]
           ELSE EmptyDict)

\* get_metadata_from_hs on the response r of the scimeta request: the data dict,
\* or None when the status is not 200 or anything in the parsing raises
get_metadata_from_hs(r) ==
    IF r.status # 200 THEN NoneD
    ELSE IF r.xml = NoneD THEN NoneD
    ELSE IF \E i \in 1..Len(r.xml.creators) : r.xml.creators[i] = << >> THEN NoneD
    ELSE IF r.xml.title = << >> THEN NoneD
    ELSE IF r.xml.abstract = << >> THEN NoneD
    ELSE IF r.xml.abstract[1] = None THEN NoneD
    ELSE Update(
           [authors |-> [i \in 1..Len(r.xml.creators) |-> Author(r.xml.creators[i][1])],
            title |-> r.xml.title[1],
            description |-> AsciiIgnore(r.xml.abstract[1])],
           IF Len(r.xml.subjects) > 0 THEN [keywords |-> r.xml.subjects] ELSE EmptyDict)

(* ------------------------------------------------------- Example Builder *)

\* yaml_data.get("hydroshare", {}).get("id")
HsidOf(yaml) ==
    IF "hydroshare" \in DOMAIN yaml /\ "id" \in DOMAIN yaml["hydroshare"]
    THEN yaml["hydroshare"]["id"]
    ELSE None

\* MergeData with the update the wrong way round: the fetched values win
MergeData_RemoteWins(hs, yaml) ==
    Update(yaml, IF hs = NoneD \/ hs = EmptyDict THEN EmptyDict ELSE hs)

\* data = hsdata or {}; data.update(yaml_data)
MergeData(hs, yaml) == Update(IF hs = NoneD \/ hs = EmptyDict THEN EmptyDict ELSE hs, yaml)

\* whether the label block raises: the title is read only in the except branch
LabelRaises(d) ==
    /\ "label" \notin DOMAIN d
    /\ ~("hydroshare" \in DOMAIN d /\ "id" \in DOMAIN d["hydroshare"])
    /\ ("title" \notin DOMAIN d \/ d["title"] = None)

\* WithLabel trying the HS id before looking for an explicit label
WithLabel_IdFirst(d) ==
    IF "hydroshare" \in DOMAIN d /\ "id" \in DOMAIN d["hydroshare"]
    THEN Put(d, "label", d["hydroshare"]["id"])
    ELSE IF "label" \in DOMAIN d THEN d
    ELSE Put(d, "label", b64encode(d["title"]))

\* if "label" not in data.keys(): try the HS id, except: base64 of the title
WithLabel(d) ==
    IF "label" \in DOMAIN d THEN d
    ELSE IF "hydroshare" \in DOMAIN d /\ "id" \in DOMAIN d["hydroshare"]
    THEN Put(d, "label", d["hydroshare"]["id"])
    ELSE Put(d, "label", b64encode(d["title"]))

\* whether the description clean-up raises (no key, or None has no replace)
DescriptionRaises(d) == "description" \notin DOMAIN d \/ d["description"] = None

\* description.replace('\n', '') then .replace('\r', '<br>')
CleanDescription(s) == replace(replace(s, 10, << >>), 13, T_Br)

(* ------------------------------------------------ Static Asset Relocator *)

\* str() of a label inside an f-string
Str(v) == IF v = None THEN << 78, 111, 110, 101 >> ELSE v

\* thumbnail_new_name = f'thumbnail-{data["label"]}'
ThumbnailNewName(d) == T_ThumbPrefix \o Str(d["label"])

\* 'thumbnail' in data.keys() and os.path.exists(thumbnail_path)
ThumbnailFound(d, exists) == "thumbnail" \in DOMAIN d /\ exists

\* CopyStaticData without the os.path.exists test
CopyStaticData_NoExistsTest(d, exists) ==
    IF "thumbnail" \in DOMAIN d
    THEN Put(d, "thumbnail", ThumbnailNewName(d))
    ELSE Put(d, "thumbnail", T_MissingThumbnail)

\* the record copy_static returns
CopyStaticData(d, exists) ==
    IF ThumbnailFound(d, exists)
    THEN Put(d, "thumbnail", ThumbnailNewName(d))
    ELSE Put(d, "thumbnail", T_MissingThumbnail)

(* ------------------------------------------------------------ Aggregator *)

\* subgallery_path = os.path.dirname(os.path.dirname(subdir))
SubgalleryPath(dir) == dirname(dirname(dir))

\* Category taking the example directory's own name
Category_OfExample(dir) == basename(dir)

\* category = os.path.basename(os.path.dirname(subdir))
Category(dir) == basename(dirname(dir))

\* subgalleries[subgallery_path][category].append(data), creating what is missing
Appended(idx, sub, cat, d) ==
    LET cats == IF sub \in DOMAIN idx THEN idx[sub] ELSE EmptyDict
        old == IF cat \in DOMAIN cats THEN cats[cat] ELSE << >>
    IN  Put(idx, sub, Put(cats, cat, Append(old, d)))

(* ----------------------------------------------------- the environment *)

\* the responses of the scimeta request the model draws from
R_NotFound == [status |-> 404, xml |-> NoneD]
R_Unparsable == [status |-> 200, xml |-> NoneD]
R_NoTitle ==
    [status |-> 200,
     xml |-> [creators |-> << >>, title |-> << >>, abstract |-> << T_Abstract >>,
              subjects |-> << >>]]
R_NoAbstract ==
    [status |-> 200,
     xml |-> [creators |-> << >>, title |-> << T_Remote >>, abstract |-> << >>,
              subjects |-> << >>]]
R_NoTerms ==
    [status |-> 200,
     xml |-> [creators |-> << << >> >>, title |-> << T_Remote >>,
              abstract |-> << T_Abstract >>, subjects |-> << >>]]
R_Full ==
    [status |-> 200,
     xml |-> [creators |-> << << [name |-> T_Hi, description |-> T_Kw] >> >>,
              title |-> << T_Remote >>, abstract |-> << T_Abstract >>,
              subjects |-> << T_Kw >>]]
R_Bare ==
    [status |-> 200,
     xml |-> [creators |-> << >>, title |-> << T_Remote >>, abstract |-> << T_Abstract >>,
              subjects |-> << >>]]

Responses == {R_NotFound, R_Unparsable, R_NoTitle, R_NoAbstract, R_NoTerms, R_Full, R_Bare}

\* the values each recognised key of a conf.yaml is drawn from (EmptyDict: no key)
TitleOpts == {EmptyDict, [title |-> T_Demo], [title |-> T_Hi]}
DescriptionOpts == {EmptyDict, [description |-> None], [description |-> T_Desc]}
LabelOpts == {EmptyDict, [label |-> None], [label |-> T_Label]}
HydroshareOpts ==
    {EmptyDict, [hydroshare |-> EmptyDict], [hydroshare |-> [id |-> None]],
     [hydroshare |-> [id |-> T_Guid]]}
ThumbnailOpts == {EmptyDict, [thumbnail |-> None], [thumbnail |-> T_Thumb]}

AllConfs ==
    { Update(Update(Update(Update(t, d), l), h), th) :
        t \in TitleOpts, d \in DescriptionOpts, l \in LabelOpts, h \in HydroshareOpts,
        th \in ThumbnailOpts }

\* an example directory: its conf.yaml, what the remote service answers for its
\* resource id, and whether its thumbnail file exists. The response is kept only
\* when a resource id is configured, the existence only when a thumbnail is named.
AllExamples ==
    { e \in [conf : AllConfs, response : Responses, thumb_exists : BOOLEAN] :
        /\ (HsidOf(e.conf) = None => e.response = R_NotFound)
        /\ (~("thumbnail" \in DOMAIN e.conf /\ e.conf["thumbnail"] # None)
              => ~e.thumb_exists) }

Example(conf, response, exists) ==
    [conf |-> conf, response |-> response, thumb_exists |-> exists]

\* the example directories of the traversal runs
Catalogue ==
    { Example([title |-> T_Demo, description |-> T_Desc], R_NotFound, FALSE),
      Example([title |-> T_Hi, description |-> T_Desc, thumbnail |-> T_Thumb],
              R_NotFound, TRUE),
      Example([hydroshare |-> [id |-> T_Guid], thumbnail |-> T_Thumb], R_Full, FALSE),
      Example([title |-> T_Demo, description |-> T_Desc, hydroshare |-> [id |-> T_Guid]],
              R_NotFound, FALSE),
      Example([title |-> T_Hi, description |-> T_Desc, hydroshare |-> [id |-> T_Guid]],
              R_NoAbstract, FALSE),
      Example([title |-> T_Demo], R_NotFound, FALSE),
      Example([title |-> T_Demo, description |-> T_Desc, label |-> None], R_NotFound, FALSE),
      Example([description |-> T_Desc, label |-> T_Label], R_NotFound, FALSE),
      Example([title |-> T_Hi, description |-> T_Desc, hydroshare |-> [id |-> None]],
              R_NotFound, FALSE) }

\* the example directories a tree of the given kind may hold
ExamplesOf(kind) == IF kind = "catalogue" THEN Catalogue ELSE AllExamples

\* the sub-gallery and category directories of the tree, in listing order
S1 == << 115, 49 >>
S2 == << 115, 50 >>
S3 == << 115, 51 >>
C1 == << 99, 49 >>
C2 == << 99, 50 >>
Groups == << << S1, C1 >>, << S1, C2 >>, << S2, C1 >> >>

\* the name of the n-th example directory
ExampleName(n) == << 101, 48 + n >>

\* source/conf.yaml: absent, or its galleries list
Gallery(s, name) == [gallery_path |-> join(gallery_dir, s), display_name |-> name]

TopConfs ==
    { [exists |-> FALSE, galleries |-> << >>],
      [exists |-> TRUE, galleries |-> << >>],
      [exists |-> TRUE, galleries |-> << Gallery(S1, T_Demo) >>],
      [exists |-> TRUE, galleries |-> << Gallery(S2, T_Hi), Gallery(S1, T_Demo) >>],
      [exists |-> TRUE, galleries |-> << Gallery(S1, T_Demo), Gallery(S3, T_Hi) >>] }

(* ------------------------------------------------------------- the state *)

VARIABLES
    pc,             \* where the script is
    raised,         \* the exception that ended the run, "" while none has
    fs,             \* the gallery tree: the kind of example directories it holds, and
                    \* how many at most
    walked,         \* number of example directories os.walk has yielded
    group,          \* position in Groups of the directory os.walk is in
    subdir,         \* the global subdir: the example directory being processed
    cur,            \* that directory's sub-gallery, category, response and thumbnail file
    yaml_data,      \* the loaded conf.yaml
    hsdata,         \* the fetched metadata, None when none
    data,           \* the record being built, None when none
    steps,          \* the pipeline steps done for the example being processed
    subgalleries,   \* sub-gallery path -> category -> list of records
    sub_order,      \* the keys of subgalleries in insertion order
    built,          \* the examples build_example_page and copy_static returned, in order
    cache_files,    \* path -> content of the .cache.yaml files written
    copied,         \* the shutil.copyfile calls, in order
    rendered,       \* the render_page calls, in order
    top_conf,       \* the galleries list of source/conf.yaml
    gallery_labels, \* sub-gallery path -> label
    next_sub        \* position in sub_order of the next sub-gallery page

exVars == << walked, group, subdir, cur, yaml_data >>
aggVars == << subgalleries, sub_order, built >>
outVars == << cache_files, copied, rendered >>
topVars == << top_conf, gallery_labels, next_sub >>
vars ==
    << pc, raised, fs, walked, group, subdir, cur, yaml_data, hsdata, data, steps,
       subgalleries, sub_order, built, cache_files, copied, rendered, top_conf,
       gallery_labels, next_sub >>

\* the state before the traversal, over the tree t
Start(t) ==
    /\ pc = "walk"
    /\ raised = ""
    /\ fs = t
    /\ walked = 0
    /\ group = 1
    /\ subdir = gallery_dir
    /\ cur = [S |-> << >>, C |-> << >>, response |-> R_NotFound, thumb_exists |-> FALSE]
    /\ yaml_data = EmptyDict
    /\ hsdata = NoneD
    /\ data = NoneD
    /\ steps = << >>
    /\ subgalleries = EmptyDict
    /\ sub_order = << >>
    /\ built = << >>
    /\ cache_files = EmptyDict
    /\ copied = << >>
    /\ rendered = << >>
    /\ top_conf = << >>
    /\ gallery_labels = EmptyDict
    /\ next_sub = 1

\* a tree of up to MaxExamples example directories drawn from the catalogue
Init == Start([examples |-> "catalogue", max |-> MaxExamples])

\* a tree of one example directory, of any configuration
InitOne == Start([examples |-> "any", max |-> 1])

\* an uncaught exception: the interpreter exits
Raise(err) ==
    /\ pc' = "crashed"
    /\ raised' = err
    /\ UNCHANGED << fs, exVars, hsdata, data, steps, aggVars, outVars, topVars >>

\* render_page(template, data, outpath)
Render(template, d, outpath) ==
    Append(rendered, [template |-> template, outpath |-> outpath, data |-> d])

(* ------------------------------------------------------ the traversal loop *)

\* os.walk yields the next directory holding a conf.yaml; build_example_page
\* opens and loads it
Walk ==
    /\ pc = "walk"
    /\ walked < fs.max
    /\ \E g \in group..Len(Groups), e \in ExamplesOf(fs.examples) :
         /\ group' = g
         /\ subdir' = gallery_dir \o << Groups[g][1], Groups[g][2], ExampleName(walked + 1) >>
         /\ cur' = [S |-> Groups[g][1], C |-> Groups[g][2], response |-> e.response,
                    thumb_exists |-> e.thumb_exists]
         /\ yaml_data' = e.conf
    /\ walked' = walked + 1
    /\ hsdata' = NoneD
    /\ data' = NoneD
    /\ steps' = << >>
    /\ pc' = "fetch"
    /\ UNCHANGED << raised, fs, aggVars, outVars, topVars >>

\* Fetch without the early return when the fetch fails
Fetch_NoEarlyReturn ==
    /\ pc = "fetch"
    /\ IF HsidOf(yaml_data) # None
       THEN /\ hsdata' = get_metadata_from_hs(cur.response)
            /\ steps' = Append(steps, "fetch")
       ELSE /\ hsdata' = NoneD
            /\ steps' = steps
    /\ pc' = "merge"
    /\ UNCHANGED << raised, fs, exVars, data, aggVars, outVars, topVars >>

\* collect hydroshare data if a resource id is provided; return None when that fails
Fetch ==
    /\ pc = "fetch"
    /\ IF HsidOf(yaml_data) # None
       THEN /\ hsdata' = get_metadata_from_hs(cur.response)
            /\ steps' = Append(steps, "fetch")
            /\ pc' = IF hsdata' = NoneD THEN "walk" ELSE "merge"
       ELSE /\ hsdata' = NoneD
            /\ steps' = steps
            /\ pc' = "merge"
    /\ UNCHANGED << raised, fs, exVars, data, aggVars, outVars, topVars >>

\* combine hsdata and yaml data
Merge ==
    /\ pc = "merge"
    /\ data' = MergeData(hsdata, yaml_data)
    /\ steps' = Append(steps, "merge")
    /\ pc' = "label"
    /\ UNCHANGED << raised, fs, exVars, hsdata, aggVars, outVars, topVars >>

\* make sure a page label exists in data
Label ==
    /\ pc = "label"
    /\ IF LabelRaises(data)
       THEN Raise(IF "title" \in DOMAIN data THEN "AttributeError" ELSE "KeyError")
       ELSE /\ data' = WithLabel(data)
            /\ pc' = "description"
            /\ UNCHANGED << raised, fs, exVars, hsdata, steps, aggVars, outVars, topVars >>

\* clean newlines from description
Description ==
    /\ pc = "description"
    /\ IF DescriptionRaises(data)
       THEN Raise(IF "description" \in DOMAIN data THEN "AttributeError" ELSE "KeyError")
       ELSE /\ data' = Put(data, "description", CleanDescription(data["description"]))
            /\ pc' = "cache"
            /\ UNCHANGED << raised, fs, exVars, hsdata, steps, aggVars, outVars, topVars >>

\* write_yaml_cache(subdir, data, filename='.cache.yaml')
Cache ==
    /\ pc = "cache"
    /\ cache_files' = Put(cache_files, join(subdir, T_CacheName), data)
    /\ steps' = Append(steps, "cache")
    /\ pc' = "render"
    /\ UNCHANGED << raised, fs, exVars, hsdata, data, aggVars, copied, rendered, topVars >>

\* RenderLanding followed by the aggregation at once, copy_static left out
RenderLanding_NoCopy ==
    /\ pc = "render"
    /\ rendered' = Render("landingpage.rst", data, join(subdir, T_IndexRst))
    /\ steps' = Append(steps, "render")
    /\ pc' = "aggregate"
    /\ UNCHANGED << raised, fs, exVars, hsdata, data, aggVars, cache_files, copied, topVars >>

\* write the rST page for this example and return data
RenderLanding ==
    /\ pc = "render"
    /\ rendered' = Render("landingpage.rst", data, join(subdir, T_IndexRst))
    /\ steps' = Append(steps, "render")
    /\ pc' = "copy"
    /\ UNCHANGED << raised, fs, exVars, hsdata, data, aggVars, cache_files, copied, topVars >>

\* data = copy_static(data)
CopyStatic ==
    /\ pc = "copy"
    /\ IF "thumbnail" \in DOMAIN data /\ data["thumbnail"] = None
       THEN Raise("TypeError")
       ELSE /\ data' = CopyStaticData(data, cur.thumb_exists)
            /\ copied' =
                 IF ThumbnailFound(data, cur.thumb_exists)
                 THEN Append(copied, [src |-> join(subdir, data["thumbnail"]),
                                      dst |-> join(static_dir, ThumbnailNewName(data))])
                 ELSE copied
            /\ built' = Append(built, [S |-> cur.S, C |-> cur.C, record |-> data'])
            /\ steps' = Append(steps, "copy")
            /\ pc' = "aggregate"
            /\ UNCHANGED << raised, fs, exVars, hsdata, subgalleries, sub_order,
                            cache_files, rendered, topVars >>

\* save this metadata for the sub-gallery page too
Aggregate ==
    /\ pc = "aggregate"
    /\ subgalleries' = Appended(subgalleries, SubgalleryPath(subdir), Category(subdir), data)
    /\ sub_order' =
         IF SubgalleryPath(subdir) \in DOMAIN subgalleries THEN sub_order
         ELSE Append(sub_order, SubgalleryPath(subdir))
    /\ steps' = Append(steps, "aggregate")
    /\ pc' = "walk"
    /\ UNCHANGED << raised, fs, exVars, hsdata, data, built, outVars, topVars >>

(* --------------------------------------- sub-gallery pages and homepage *)

\* id = base64.b64encode(os.path.basename(sub).encode()).decode()
SubgalleryLabel(sub) == b64encode(basename(sub))

\* the display_name of the first entry whose gallery_path is sub, else "<name> Gallery"
GalleryTitle(galleries, sub) ==
    LET hits == SelectSeq(galleries, LAMBDA v : v["gallery_path"] = sub)
    IN  IF Len(hits) > 0 THEN hits[1]["display_name"] ELSE basename(sub) \o T_Gallery

\* the galleries list after the homepage loop: v["label"] = gallery_labels[...] is set
\* on each entry whose gallery_path has a label
Labelled(galleries, labels) ==
    [i \in 1..Len(galleries) |->
        IF galleries[i]["gallery_path"] \in DOMAIN labels
        THEN Put(galleries[i], "label", labels[galleries[i]["gallery_path"]])
        ELSE galleries[i]]

\* HomepagePanels without the test for a label: every entry of the list
HomepagePanels_Unfiltered(galleries, labels) == Labelled(galleries, labels)

\* homepage_panels: the entries of the galleries list whose gallery_path has a label
HomepagePanels(galleries, labels) ==
    SelectSeq(Labelled(galleries, labels), LAMBDA v : v["gallery_path"] \in DOMAIN labels)

\* os.walk is exhausted; open and load source/conf.yaml
LoadTop ==
    /\ pc = "walk"
    /\ \E t \in TopConfs :
         IF ~t.exists
         THEN Raise("FileNotFoundError")
         ELSE /\ top_conf' = t.galleries
              /\ gallery_labels' = EmptyDict
              /\ next_sub' = 1
              /\ pc' = "subgallery"
              /\ UNCHANGED << raised, fs, exVars, hsdata, data, steps, aggVars, outVars >>

\* one iteration of the loop over subgalleries.items()
SubgalleryPage ==
    /\ pc = "subgallery"
    /\ next_sub <= Len(sub_order)
    /\ LET sub == sub_order[next_sub]
       IN  /\ gallery_labels' = Put(gallery_labels, sub, SubgalleryLabel(sub))
           /\ rendered' =
                Render("gallery.rst",
                       [label |-> SubgalleryLabel(sub),
                        gallery_title |-> GalleryTitle(top_conf, sub),
                        categories |-> subgalleries[sub]],
                       join(sub, T_IndexRst))
    /\ next_sub' = next_sub + 1
    /\ UNCHANGED << pc, raised, fs, exVars, hsdata, data, steps, aggVars, cache_files,
                    copied, top_conf >>

\* build the homepage
Homepage ==
    /\ pc = "subgallery"
    /\ next_sub > Len(sub_order)
    /\ rendered' =
         Render("homepage.rst", [galleries |-> HomepagePanels(top_conf, gallery_labels)],
                join(source_dir, T_IndexRst))
    /\ top_conf' = Labelled(top_conf, gallery_labels)
    /\ pc' = "done"
    /\ UNCHANGED << raised, fs, exVars, hsdata, data, steps, aggVars, cache_files, copied,
                    gallery_labels, next_sub >>

Next ==
    \/ Walk
    \/ Fetch
    \/ Merge
    \/ Label
    \/ Description
    \/ Cache
    \/ RenderLanding
    \/ CopyStatic
    \/ Aggregate
    \/ LoadTop
    \/ SubgalleryPage
    \/ Homepage

\* the traversal of a tree of catalogue examples
Spec == Init /\ [][Next]_vars

\* the run over a single example directory of any configuration
SpecOne == InitOne /\ [][Next]_vars

(* ------------------------------------------------------------ the claims *)

CachePath(dir) == join(dir, T_CacheName)
LandingPath(dir) == join(dir, T_IndexRst)

\* the places of the index that hold a record: (sub-gallery, category, position)
Slots ==
    UNION { UNION { { << sub, cat, i >> : i \in 1..Len(subgalleries[sub][cat]) } :
                    cat \in DOMAIN subgalleries[sub] } :
            sub \in DOMAIN subgalleries }

\* C1: a failure of one example (short of a top-level configuration error) never
\* aborts the run: the only exception that ends a run is the one raised when the
\* top-level configuration cannot be loaded.
C1_ExampleFailureNeverAborts == pc = "crashed" => raised = "FileNotFoundError"

\* the remote answers that make the fetch fail: a status other than 200, a body
\* that does not parse, a creator without its description element, no title
\* element, no abstract
FetchFailure(r) == r \in {R_NotFound, R_Unparsable, R_NoTitle, R_NoAbstract, R_NoTerms}

\* the example being processed named a resource id and its fetch has failed
Skipped == walked > 0 /\ pc # "fetch" /\ HsidOf(yaml_data) # None /\ FetchFailure(cur.response)

\* C2: when the configuration names a resource id and the fetch fails, the build
\* returns None at once: the traversal is back at the loop head, no cache file and
\* no landing page exist for the example, and until the next example is taken up
\* nothing is copied, built or filed in the index.
C2_FetchFailureSkipsExample ==
    /\ [](Skipped =>
            /\ data = NoneD
            /\ steps = << "fetch" >>
            /\ raised \in {"", "FileNotFoundError"}
            /\ CachePath(subdir) \notin DOMAIN cache_files
            /\ \A i \in 1..Len(rendered) : rendered[i].outpath # LandingPath(subdir))
    /\ [][pc = "fetch" /\ HsidOf(yaml_data) # None /\ FetchFailure(cur.response)
            => pc' = "walk"]_vars
    /\ [][Skipped /\ walked' = walked
            => subgalleries' = subgalleries /\ built' = built /\ copied' = copied
               /\ cache_files' = cache_files]_vars

\* C2 witness: the first example was skipped on a failed fetch and the second one
\* was then built, cached and filed
C2_Witness ==
    /\ pc = "done"
    /\ walked = 2
    /\ Len(built) = 1
    /\ DOMAIN cache_files = { CachePath(subdir) }
    /\ Cardinality(Slots) = 1

\* C3: every record filed in the index has a non-null label, description and
\* thumbnail.
C3_FiledRecordsComplete ==
    \A s \in Slots :
        LET r == subgalleries[s[1]][s[2]][s[3]]
        IN  /\ {"label", "description", "thumbnail"} \subseteq DOMAIN r
            /\ r["label"] # None
            /\ r["description"] # None
            /\ r["thumbnail"] # None

\* C4: build_example_page returns a record only when the merged data holds both a
\* title and a description (a configuration lacking either makes it raise).
C4_MissingFieldRaises ==
    pc \in {"copy", "aggregate"} => {"title", "description"} \subseteq DOMAIN data

\* what base64.b64encode yields for the titles the configurations carry
\* ("Demo" -> "RGVtbw==", "Hi" -> "SGk=")
KnownB64(title) ==
    IF title = T_Demo THEN << 82, 71, 86, 116, 98, 119, 61, 61 >>
    ELSE IF title = T_Hi THEN << 83, 71, 107, 61 >>
    ELSE None

\* C5: the label of the record build_example_page works on, once derived, is the
\* explicit label of the configuration when it has that key; otherwise the
\* hydroshare id when the configuration has one; otherwise the base64 text of the
\* title.
C5_LabelFirstMatch ==
    pc \in {"description", "cache", "render", "copy", "aggregate"} =>
        /\ "label" \in DOMAIN data
        /\ data["label"] =
             IF "label" \in DOMAIN yaml_data THEN yaml_data["label"]
             ELSE IF "hydroshare" \in DOMAIN yaml_data /\ "id" \in DOMAIN yaml_data["hydroshare"]
             THEN yaml_data["hydroshare"]["id"]
             ELSE KnownB64(data["title"])

\* C5 witness: a configuration with a hydroshare mapping that has no id and with no
\* label got the base64 text of its title as label
C5_Witness ==
    /\ pc = "copy"
    /\ "label" \notin DOMAIN yaml_data
    /\ "hydroshare" \in DOMAIN yaml_data
    /\ "id" \notin DOMAIN yaml_data["hydroshare"]
    /\ data["title"] = T_Demo
    /\ data["label"] = << 82, 71, 86, 116, 98, 119, 61, 61 >>

\* the fetched mapping the merge starts from
Fetched == IF hsdata = NoneD THEN EmptyDict ELSE hsdata

\* C6: right after the merge the record holds the local value for every key of the
\* local configuration, the fetched value for every key only the fetched metadata
\* has, and no other key.
C6_LocalOverlaysFetched ==
    pc = "label" =>
        /\ DOMAIN data = (DOMAIN yaml_data) \cup (DOMAIN Fetched)
        /\ \A k \in DOMAIN yaml_data : data[k] = yaml_data[k]
        /\ \A k \in (DOMAIN Fetched) \ (DOMAIN yaml_data) : data[k] = Fetched[k]

\* C6 witness: a merge in which the local title collides with a different fetched
\* title and the fetched keywords have no local counterpart
C6_Witness ==
    /\ pc = "label"
    /\ hsdata # NoneD
    /\ "title" \in DOMAIN yaml_data
    /\ hsdata["title"] # yaml_data["title"]
    /\ data["title"] = yaml_data["title"]
    /\ "keywords" \in DOMAIN data

\* the records of the examples built so far under sub-gallery sub and category cat,
\* in the order of discovery (the last one is not yet filed while pc = "aggregate")
BuiltUnder(sub, cat) ==
    LET done == IF pc = "aggregate" THEN SubSeq(built, 1, Len(built) - 1) ELSE built
        mine == SelectSeq(done, LAMBDA b : join(gallery_dir, b.S) = sub /\ b.C = cat)
    IN  [i \in 1..Len(mine) |-> mine[i].record]

\* the sequence filed under sub and cat, empty when there is none
FiledUnder(idx, sub, cat) ==
    IF sub \in DOMAIN idx /\ cat \in DOMAIN idx[sub] THEN idx[sub][cat] ELSE << >>

AllSubs == { join(gallery_dir, x) : x \in {S1, S2, S3} } \cup DOMAIN subgalleries
AllCats == {C1, C2} \cup UNION { DOMAIN subgalleries[x] : x \in DOMAIN subgalleries }

\* C7: each (sub-gallery, category) sequence of the index holds exactly the records
\* of the examples built under <S>/<C>, once each and in the order of discovery;
\* a step files the record of an example at <S>/<C>/<E> at the end of index[S][C]
\* and leaves every other sequence as it was.
C7_AggregationGrouping ==
    /\ [](\A sub \in AllSubs, cat \in AllCats :
            FiledUnder(subgalleries, sub, cat) = BuiltUnder(sub, cat))
    /\ [][\A sub \in AllSubs, cat \in AllCats :
            FiledUnder(subgalleries', sub, cat) =
              IF pc = "aggregate" /\ sub = join(gallery_dir, cur.S) /\ cat = cur.C
              THEN Append(FiledUnder(subgalleries, sub, cat), data)
              ELSE FiledUnder(subgalleries, sub, cat)]_vars

\* C7 witness: a category holding two different records, after a traversal in which
\* one more example was discovered but not built
C7_Witness ==
    /\ pc = "walk"
    /\ walked > Len(built)
    /\ Cardinality(Slots) = 2
    /\ \E sub \in DOMAIN subgalleries : \E cat \in DOMAIN subgalleries[sub] :
         /\ Len(subgalleries[sub][cat]) = 2
         /\ subgalleries[sub][cat][1] # subgalleries[sub][cat][2]

\* the name copy_static gives the copy of the thumbnail of a record labelled l
\* ("thumbnail-" and the label; a null label reads "None")
ExpectedThumbnail(l) ==
    << 116, 104, 117, 109, 98, 110, 97, 105, 108, 45 >>
    \o (IF l = None THEN << 78, 111, 110, 101 >> ELSE l)

\* C8: a copy_static call that returns, on a record without thumbnail key or whose
\* thumbnail file does not exist, sets thumbnail to missing-thumbnail.png and copies
\* nothing; on a record whose thumbnail file exists it copies that one file to
\* thumbnail-<label> in the static directory and sets thumbnail to that name. No
\* other key changes.
C8_ThumbnailSubstitution ==
    [][pc = "copy" /\ pc' = "aggregate" =>
        /\ DOMAIN data' = (DOMAIN data) \cup {"thumbnail"}
        /\ \A k \in (DOMAIN data) \ {"thumbnail"} : data'[k] = data[k]
        /\ IF "thumbnail" \notin DOMAIN data \/ ~cur.thumb_exists
           THEN /\ data'["thumbnail"] = T_MissingThumbnail
                /\ copied' = copied
           ELSE /\ data'["thumbnail"] = ExpectedThumbnail(data["label"])
                /\ copied' =
                     Append(copied,
                            [src |-> Append(subdir, data["thumbnail"]),
                             dst |-> Append(static_dir, ExpectedThumbnail(data["label"]))])
     ]_vars

\* C8 witness: copy_static has returned for a record naming a thumbnail file that
\* does not exist: the default is set and nothing was copied
C8_Witness ==
    /\ pc = "aggregate"
    /\ "thumbnail" \in DOMAIN yaml_data
    /\ ~cur.thumb_exists
    /\ data["thumbnail"] = T_MissingThumbnail
    /\ copied = << >>

\* the render_page calls made with template t
RenderedWith(t) == SelectSeq(rendered, LAMBDA r : r.template = t)

\* C9: when the run is done, one sub-gallery page has been rendered for each key of
\* the index and none for anything else, and the homepage lists exactly the entries
\* of the top-level galleries list whose gallery_path is such a key, in the order of
\* that list.
C9_PagesForBuiltSubgalleries ==
    pc = "done" =>
        /\ \A sub \in DOMAIN subgalleries :
             Cardinality({ i \in 1..Len(rendered) :
                             /\ rendered[i].template = "gallery.rst"
                             /\ rendered[i].outpath = Append(sub, T_IndexRst) }) = 1
        /\ Len(RenderedWith("gallery.rst")) = Cardinality(DOMAIN subgalleries)
        /\ Len(RenderedWith("homepage.rst")) = 1
        /\ RenderedWith("homepage.rst")[1].data["galleries"] =
             SelectSeq(top_conf, LAMBDA v : v["gallery_path"] \in DOMAIN subgalleries)

\* C9 witness: a finished run whose top-level list names two sub-galleries, of
\* which only one has built examples and appears on the homepage
C9_Witness ==
    /\ pc = "done"
    /\ Len(top_conf) = 2
    /\ \E i \in 1..2 : top_conf[i]["gallery_path"] \notin DOMAIN subgalleries
    /\ Len(rendered[Len(rendered)].data["galleries"]) = 1

\* the steps of an example that names a resource id, and of one that names none
StepsWithFetch == << "fetch", "merge", "cache", "render", "copy", "aggregate" >>
StepsNoFetch == << "merge", "cache", "render", "copy", "aggregate" >>

IsPrefix(a, b) == Len(a) <= Len(b) /\ SubSeq(b, 1, Len(a)) = a

\* a sub-gallery page or the homepage has been rendered
GalleryRendering ==
    \E i \in 1..Len(rendered) : rendered[i].template \in {"gallery.rst", "homepage.rst"}

\* C10: the steps done for an example are always an initial part of fetch, merge,
\* cache-write, render, asset copy, aggregate (the fetch only when a resource id is
\* named); the next example is taken up only when the previous one was aggregated
\* or skipped at its fetch; and once a sub-gallery page or the homepage is rendered,
\* no example is taken up, processed or aggregated any more.
C10_SequentialPipeline ==
    /\ [](IsPrefix(steps, StepsWithFetch) \/ IsPrefix(steps, StepsNoFetch))
    /\ [](Len(rendered) > 0 /\ rendered[Len(rendered)].template = "landingpage.rst"
            => CachePath(dirname(rendered[Len(rendered)].outpath)) \in DOMAIN cache_files)
    /\ [][walked' # walked =>
            \/ walked = 0
            \/ steps = << "fetch" >>
            \/ steps \in {StepsWithFetch, StepsNoFetch}]_vars
    /\ [][GalleryRendering' =>
            /\ walked' = walked
            /\ steps' = steps
            /\ subgalleries' = subgalleries
            /\ (walked = 0 \/ steps = << "fetch" >> \/ steps \in {StepsWithFetch, StepsNoFetch})
         ]_vars

\* C10 witness: a finished run of three examples, the last of which went through
\* all six steps
C10_Witness ==
    /\ pc = "done"
    /\ walked = 3
    /\ steps = StepsWithFetch
    /\ Len(built) = 3

====
